---- MODULE Spec2Model ----
(***************************************************************************)
(* sigma-serve-rs: a static file server (src/src/main.rs).                 *)
(*                                                                         *)
(* Strings and file contents are sequences of bytes (0..255); a path on    *)
(* the filesystem is a sequence of components, each a sequence of bytes.   *)
(* The filesystem is a map from absolute component paths to nodes; it is   *)
(* walked the way realpath(3) and open(2) walk it.                        *)
(***************************************************************************)
EXTENDS Integers, Sequences, FiniteSets, TLC

(***************************************************************************)
(* Bounds of the model.                                                    *)
(***************************************************************************)
\* connections of the concurrent specification LiveSpec
MaxConn == 2
\* filesystem changes interleaved with one handler in Spec
MaxFsChanges == 2
\* symbolic links followed by one path walk before ELOOP
MaxLinks == 2

(***************************************************************************)
(* Byte strings used by the program and by the modelled environment.       *)
(***************************************************************************)
SLASH == 47

\* "GET"
GET == <<71,69,84>>
\* "/"
ROOT_PATH == <<SLASH>>
\* "index.html"
INDEX_HTML == <<105,110,100,101,120,46,104,116,109,108>>
\* "404.html"
FALLBACK_NAME == <<52,48,52,46,104,116,109,108>>
\* "404 Not Found"
BODY_404 == <<52,48,52,32,78,111,116,32,70,111,117,110,100>>
\* "405 Method Not Allowed"
BODY_405 == <<52,48,53,32,77,101,116,104,111,100,32,78,111,116,32,65,108,108,111,119,101,100>>
\* "400 Bad Request"
BODY_400 == <<52,48,48,32,66,97,100,32,82,101,113,117,101,115,116>>
\* "500 Internal Server Error"
BODY_500 == <<53,48,48,32,73,110,116,101,114,110,97,108,32,83,101,114,118,101,114,32,69,114,114,111,114>>

\* args.suffix, here ".h"
suffix == <<46,104>>
\* args.root after fs::canonicalize: the directory /srv
root == << <<115,114,118>> >>

Range(s) == {s[i] : i \in 1..Len(s)}

IsPrefix(p, s) == Len(p) <= Len(s) /\ SubSeq(s, 1, Len(p)) = p

(***************************************************************************)
(* std::str::from_utf8: the byte sequence is well-formed UTF-8.            *)
(***************************************************************************)
IsCont(b) == b >= 128 /\ b <= 191

RECURSIVE ValidUtf8(_)
ValidUtf8(s) ==
    IF s = <<>> THEN TRUE
    ELSE LET b == s[1]
             n == Len(s)
         IN  IF b < 128 THEN ValidUtf8(Tail(s))
             ELSE IF b >= 194 /\ b <= 223
             THEN n >= 2 /\ IsCont(s[2]) /\ ValidUtf8(SubSeq(s, 3, n))
             ELSE IF b >= 224 /\ b <= 239
             THEN /\ n >= 3
                  /\ IsCont(s[2])
                  /\ IsCont(s[3])
                  /\ (b = 224 => s[2] >= 160)
                  /\ (b = 237 => s[2] <= 159)
                  /\ ValidUtf8(SubSeq(s, 4, n))
             ELSE IF b >= 240 /\ b <= 244
             THEN /\ n >= 4
                  /\ IsCont(s[2])
                  /\ IsCont(s[3])
                  /\ IsCont(s[4])
                  /\ (b = 240 => s[2] >= 144)
                  /\ (b = 244 => s[2] <= 143)
                  /\ ValidUtf8(SubSeq(s, 5, n))
             ELSE FALSE

(***************************************************************************)
(* urlencoding::decode (version 2 of the crate), as called at main.rs 139  *)
(* and 160: every "%XY" with two hex digits becomes the byte 16*X+Y, a '%' *)
(* not followed by two hex digits is kept as it is, and the result must be *)
(* UTF-8.                                                                  *)
(***************************************************************************)
IsHex(b) == (b >= 48 /\ b <= 57) \/ (b >= 65 /\ b <= 70) \/ (b >= 97 /\ b <= 102)

from_hex_digit(b) ==
    IF b >= 48 /\ b <= 57 THEN b - 48
    ELSE IF b >= 65 /\ b <= 70 THEN b - 55
    ELSE b - 87

RECURSIVE decode_binary(_)
decode_binary(s) ==
    IF s = <<>> THEN <<>>
    ELSE IF s[1] # 37 THEN <<s[1]>> \o decode_binary(Tail(s))
    ELSE IF Len(s) < 3 THEN s
    ELSE IF ~IsHex(s[2]) THEN <<37>> \o decode_binary(Tail(s))
    ELSE IF ~IsHex(s[3]) THEN <<37, s[2]>> \o decode_binary(SubSeq(s, 3, Len(s)))
    ELSE <<16 * from_hex_digit(s[2]) + from_hex_digit(s[3])>>
             \o decode_binary(SubSeq(s, 4, Len(s)))

decode(s) ==
    LET b == decode_binary(s)
    IN  IF ValidUtf8(b) THEN [ok |-> TRUE, val |-> b]
        ELSE [ok |-> FALSE, val |-> <<>>]

(***************************************************************************)
(* The filesystem.  A node is absent, a regular file, a directory or a     *)
(* symbolic link with an absolute target; perm is the read permission of   *)
(* a file and the search permission of a directory.                       *)
(***************************************************************************)
Absent == [k |-> "none", data |-> <<>>, to |-> <<>>, perm |-> FALSE]
File(d) == [k |-> "file", data |-> d, to |-> <<>>, perm |-> TRUE]
Unreadable(d) == [k |-> "file", data |-> d, to |-> <<>>, perm |-> FALSE]
Dir == [k |-> "dir", data |-> <<>>, to |-> <<>>, perm |-> TRUE]
NoSearchDir == [k |-> "dir", data |-> <<>>, to |-> <<>>, perm |-> FALSE]
Link(t) == [k |-> "link", data |-> <<>>, to |-> t, perm |-> TRUE]

\* /srv/index.html, /srv/404.html, /srv/a.h, /srv/a%41.h, /srv/aA.h
P_index == root \o <<INDEX_HTML>>
P_404 == root \o <<FALLBACK_NAME>>
P_a == root \o << <<97,46,104>> >>
P_pct == root \o << <<97,37,52,49,46,104>> >>
P_aA == root \o << <<97,65,46,104>> >>
\* /secret.h and /priv, both outside root
P_secret == << <<115,101,99,114,101,116,46,104>> >>
P_priv == << <<112,114,105,118>> >>

\* file contents: "home", "hi", "pct", "nf", one byte that is not UTF-8, "S"
D_home == <<104,111,109,101>>
D_a == <<104,105>>
D_pct == <<112,99,116>>
D_nf == <<110,102>>
D_latin == <<255>>
D_secret == <<83>>

FsPaths == {root, P_index, P_404, P_a, P_pct, P_aA, P_secret, P_priv}

\* the directory tree the server is started on
fs0 ==
    [p \in FsPaths |->
        CASE p = root -> Dir
          [] p = P_index -> File(D_home)
          [] p = P_404 -> Absent
          [] p = P_a -> File(D_a)
          [] p = P_pct -> File(D_pct)
          [] p = P_aA -> Absent
          [] p = P_secret -> File(D_secret)
          [] p = P_priv -> NoSearchDir]

\* what another process may put at a path while the server runs
Alternatives(p) ==
    CASE p = P_a -> {Absent, File(D_a), Unreadable(D_a), Dir, Link(P_secret)}
      [] p = P_404 -> {Absent, File(D_nf), File(D_latin), Link(P_secret)}
      [] OTHER -> {}

Mutable == {P_a, P_404}

Node(f, p) ==
    IF p = <<>> THEN Dir
    ELSE IF p \in DOMAIN f THEN f[p]
    ELSE Absent

(***************************************************************************)
(* A path string is cut at '/' into components; an absolute path is        *)
(* walked from the filesystem root.                                        *)
(***************************************************************************)
RECURSIVE Components(_, _)
Components(s, cur) ==
    IF s = <<>> THEN (IF cur = <<>> THEN <<>> ELSE <<cur>>)
    ELSE IF s[1] = SLASH
    THEN (IF cur = <<>> THEN <<>> ELSE <<cur>>) \o Components(Tail(s), <<>>)
    ELSE Components(Tail(s), Append(cur, s[1]))

\* Path::join: an absolute argument replaces the base
join(base, rel) ==
    IF rel # <<>> /\ rel[1] = SLASH THEN Components(rel, <<>>)
    ELSE base \o Components(rel, <<>>)

Parent(p) == IF p = <<>> THEN <<>> ELSE SubSeq(p, 1, Len(p) - 1)

\* realpath(3): "." and ".." are resolved physically, symbolic links are
\* followed, every directory on the way must be searchable
RECURSIVE Walk(_, _, _, _)
Walk(f, cur, rest, links) ==
    IF rest = <<>> THEN [ok |-> TRUE, path |-> cur, kind |-> "Ok"]
    ELSE LET h == Head(rest)
             t == Tail(rest)
         IN  IF ~Node(f, cur).perm
             THEN [ok |-> FALSE, path |-> <<>>, kind |-> "PermissionDenied"]
             ELSE IF h = <<46>> THEN Walk(f, cur, t, links)
             ELSE IF h = <<46,46>> THEN Walk(f, Parent(cur), t, links)
             ELSE LET p == Append(cur, h)
                      n == Node(f, p)
                  IN  CASE n.k = "none" ->
                               [ok |-> FALSE, path |-> <<>>, kind |-> "NotFound"]
                        [] n.k = "dir" -> Walk(f, p, t, links)
                        [] n.k = "file" ->
                               IF t = <<>>
                               THEN [ok |-> TRUE, path |-> p, kind |-> "Ok"]
                               ELSE [ok |-> FALSE, path |-> <<>>, kind |-> "NotADirectory"]
                        [] n.k = "link" ->
                               IF links = 0
                               THEN [ok |-> FALSE, path |-> <<>>, kind |-> "FilesystemLoop"]
                               ELSE Walk(f, <<>>, n.to \o t, links - 1)

\* fs::canonicalize of a path given by its components; a NUL byte in the
\* path is refused before the filesystem is consulted
canonicalize(f, comps) ==
    IF \E i \in 1..Len(comps) : 0 \in Range(comps[i])
    THEN [ok |-> FALSE, path |-> <<>>, kind |-> "InvalidInput"]
    ELSE Walk(f, <<>>, comps, MaxLinks)

\* Path::starts_with: a prefix in whole components
starts_with(path, base) == IsPrefix(base, path)

\* fs::read: open(2) walks the path again, following symbolic links, and
\* the file behind it must be a readable regular file; at is where the
\* bytes came from
read(f, comps) ==
    LET w == canonicalize(f, comps)
    IN  IF w.ok /\ Node(f, w.path).k = "file" /\ Node(f, w.path).perm
        THEN [ok |-> TRUE, data |-> Node(f, w.path).data, at |-> w.path]
        ELSE [ok |-> FALSE, data |-> <<>>, at |-> <<>>]

\* fs::read_to_string: fs::read, then the bytes must be UTF-8
read_to_string(f, comps) ==
    LET r == read(f, comps)
    IN  IF r.ok /\ ValidUtf8(r.data) THEN r
        ELSE [ok |-> FALSE, data |-> <<>>, at |-> <<>>]

(***************************************************************************)
(* Request and Response (main.rs 26-45).                                   *)
(***************************************************************************)
NoRequest == [path |-> <<>>, raw_path |-> <<>>, method |-> <<>>]

Request(path, raw_path, method) ==
    [path |-> path, raw_path |-> raw_path, method |-> method]

NoResponse == [status_code |-> 0, status_message |-> "", body |-> <<>>]

Response(status_code, status_message, body) ==
    [status_code |-> status_code, status_message |-> status_message, body |-> body]

\* Response::write: "HTTP/1.1 <code> <message>\r\nContent-Length: <len>\r\n\r\n"
\* followed by the body
NoWire == [sent |-> "none", status_code |-> 0, status_message |-> "",
           content_length |-> 0, body |-> <<>>]
WriteFailed == [sent |-> "failed", status_code |-> 0, status_message |-> "",
                content_length |-> 0, body |-> <<>>]

write(r) ==
    [sent |-> "ok", status_code |-> r.status_code,
     status_message |-> r.status_message,
     content_length |-> Len(r.body), body |-> r.body]

(***************************************************************************)
(* parse_request (main.rs 127-145).                                        *)
(***************************************************************************)
IsSpace(b) == b \in {9, 10, 11, 12, 13, 32}

\* index of the first line feed, 0 when there is none
RECURSIVE FirstLF(_, _)
FirstLF(s, i) ==
    IF i > Len(s) THEN 0
    ELSE IF s[i] = 10 THEN i
    ELSE FirstLF(s, i + 1)

\* BufRead::lines().next() on the bytes the peer has sent so far: a line
\* ends at "\n" (a "\r" before it is dropped); at end of stream the bytes
\* left over are a line too, and an empty stream gives None
next_line(bytes, eof) ==
    LET n == FirstLF(bytes, 1)
        raw == IF n = 0 THEN bytes ELSE SubSeq(bytes, 1, n - 1)
        line == IF n > 0 /\ raw # <<>> /\ raw[Len(raw)] = 13
                THEN SubSeq(raw, 1, Len(raw) - 1)
                ELSE raw
    IN  IF n = 0 /\ ~eof THEN [kind |-> "Blocked", line |-> <<>>]
        ELSE IF n = 0 /\ bytes = <<>> THEN [kind |-> "None", line |-> <<>>]
        ELSE IF ~ValidUtf8(raw) THEN [kind |-> "InvalidData", line |-> <<>>]
        ELSE [kind |-> "Some", line |-> line]

\* str::split_whitespace
RECURSIVE split_whitespace(_, _)
split_whitespace(s, cur) ==
    IF s = <<>> THEN (IF cur = <<>> THEN <<>> ELSE <<cur>>)
    ELSE IF IsSpace(s[1])
    THEN (IF cur = <<>> THEN <<>> ELSE <<cur>>) \o split_whitespace(Tail(s), <<>>)
    ELSE split_whitespace(Tail(s), Append(cur, s[1]))

\* the result of parse_request: kind is "Ok", "Blocked" or the ErrorKind
parse_request(bytes, peerState) ==
    LET l == next_line(bytes, peerState = "closed")
        parts == split_whitespace(l.line, <<>>)
        method == IF Len(parts) >= 1 THEN parts[1] ELSE <<>>
        path == IF Len(parts) >= 2 THEN parts[2] ELSE ROOT_PATH
        d == decode(path)
    IN  IF peerState = "reset" THEN [kind |-> "ConnectionReset", req |-> NoRequest]
        ELSE IF peerState = "timeout" THEN [kind |-> "TimedOut", req |-> NoRequest]
        ELSE IF l.kind = "Blocked" THEN [kind |-> "Blocked", req |-> NoRequest]
        ELSE IF l.kind = "None" THEN [kind |-> "ConnectionReset", req |-> NoRequest]
        ELSE IF l.kind = "InvalidData" THEN [kind |-> "InvalidData", req |-> NoRequest]
        ELSE IF ~d.ok THEN [kind |-> "InvalidData", req |-> NoRequest]
        ELSE [kind |-> "Ok", req |-> Request(d.val, path, method)]

\* main.rs 88-100: what the handler does with a parser error: the error is
\* logged unless it is ConnectionReset or InvalidData; never a response
ParseErrorLogged(kind) == kind \notin {"ConnectionReset", "InvalidData"}

(***************************************************************************)
(* prepare_response (main.rs 147-187) and not_found (main.rs 189-194),     *)
(* cut at the three places where they call the filesystem.                 *)
(***************************************************************************)
R405 == Response(405, "Method Not Allowed", BODY_405)
R400 == Response(400, "Bad Request", BODY_400)
R500 == Response(500, "Internal Server Error", BODY_500)

\* main.rs 156-171: the path below root that is asked for
requested(req) ==
    IF req.path = ROOT_PATH THEN [ok |-> TRUE, val |-> INDEX_HTML]
    ELSE LET stripped == IF req.path # <<>> /\ req.path[1] = SLASH
                         THEN Tail(req.path)
                         ELSE req.path
             d == decode(stripped)
         IN  IF d.ok THEN [ok |-> TRUE, val |-> d.val \o suffix]
             ELSE [ok |-> FALSE, val |-> <<>>]

\* main.rs 148-181: up to and including the containment check.
\* next is the stage the handler goes to, resp the response when it is
\* already decided, full_path the canonical path, canon the outcome of
\* fs::canonicalize ("none" when it was not called), fault whether main
\* logs a handler error and answers 500 (main.rs 102-112).
Resolve(f, req) ==
    LET rq == requested(req)
        c == canonicalize(f, join(root, rq.val))
    IN  IF req.method # GET
        THEN [next |-> "Writing", resp |-> R405, full_path |-> <<>>,
              canon |-> "none", fault |-> FALSE]
        ELSE IF ~rq.ok
        THEN [next |-> "Writing", resp |-> R400, full_path |-> <<>>,
              canon |-> "none", fault |-> FALSE]
        ELSE IF c.ok /\ starts_with(c.path, root)
        THEN [next |-> "Building", resp |-> NoResponse, full_path |-> c.path,
              canon |-> c.kind, fault |-> FALSE]
        ELSE IF c.ok \/ c.kind = "NotFound"
        THEN [next |-> "Fallback", resp |-> NoResponse, full_path |-> c.path,
              canon |-> c.kind, fault |-> FALSE]
        ELSE [next |-> "Writing", resp |-> R500, full_path |-> <<>>,
              canon |-> c.kind, fault |-> TRUE]

\* Build with a read error passed on to main, which answers 500
BuildPropagate(r) ==
    IF r.ok THEN [next |-> "Writing", resp |-> Response(200, "Ok", r.data)]
    ELSE [next |-> "Writing", resp |-> R500]

\* main.rs 183-186: the outcome of fs::read(&full_path)
Build(r) ==
    IF r.ok THEN [next |-> "Writing", resp |-> Response(200, "Ok", r.data)]
    ELSE [next |-> "Fallback", resp |-> NoResponse]

\* main.rs 189-194: r is the outcome of fs::read_to_string(root/404.html)
not_found(r) ==
    Response(404, "Not Found", IF r.ok THEN r.data ELSE BODY_404)

(***************************************************************************)
(* The bytes a peer may send on its connection.                            *)
(***************************************************************************)
\* "GET / HTTP/1.1\r\n"
S_index == <<71,69,84,32,47,32,72,84,84,80,47,49,46,49,13,10>>
\* "GET /a\n"
S_a == <<71,69,84,32,47,97,10>>
\* "GET /a%2541\n": the file name "a%41", percent-encoded once
S_pct == <<71,69,84,32,47,97,37,50,53,52,49,10>>
\* "GET /m\n": no such file
S_missing == <<71,69,84,32,47,109,10>>
\* "GET /%2e%2e/secret\n": /secret.h, outside root
S_secret == <<71,69,84,32,47,37,50,101,37,50,101,47,115,101,99,114,101,116,10>>
\* "GET /%2e%2e/priv/x\n": /priv/x.h, outside root, /priv cannot be searched
S_priv == <<71,69,84,32,47,37,50,101,37,50,101,47,112,114,105,118,47,120,10>>
\* "POST /a\n"
S_post == <<80,79,83,84,32,47,97,10>>
\* "POST /%ff\n"
S_post_bad == <<80,79,83,84,32,47,37,102,102,10>>
\* "GET /%ff\n": decodes to a byte that is not UTF-8
S_bad == <<71,69,84,32,47,37,102,102,10>>
\* "GET /%25ff\n": decodes to "/%ff", which decodes to a byte that is not UTF-8
S_bad2 == <<71,69,84,32,47,37,50,53,102,102,10>>
\* "GET /" with no line terminator
S_partial == <<71,69,84,32,47>>
\* "get /a\n"
S_lower == <<103,101,116,32,47,97,10>>
\* "\n": an empty line
S_empty == <<10>>
\* a line that is not UTF-8
S_binary == <<255,10>>

Streams == {S_index, S_a, S_pct, S_missing, S_secret, S_priv, S_post,
            S_post_bad, S_bad, S_bad2, S_partial, S_lower, S_empty, S_binary}

LiveStreams == {S_index, S_missing, S_bad, S_priv}

(***************************************************************************)
(* State.                                                                  *)
(***************************************************************************)
Conns == 1..MaxConn
\* the handler that Spec follows through every filesystem change
Watched == {1}

VARIABLES
    fs,          \* the filesystem
    fsChanges,   \* number of changes made to it by other processes
    pc,          \* stage of each connection
    sent,        \* bytes the peer has sent
    peer,        \* "open", "closed" (end of stream), "reset", "timeout"
    request,     \* the parsed Request
    full_path,   \* result of fs::canonicalize
    response,    \* the Response built
    wire,        \* what Response::write put on the stream
    errorLogged, \* error! was called for this connection
    canon,       \* history: outcome of fs::canonicalize
    readRes,     \* history: outcome of fs::read(&full_path)
    nfRead,      \* history: fs::read of root/404.html when not_found ran
    bodyFrom     \* history: canonical path of the file the body was read from

vars == <<fs, fsChanges, pc, sent, peer, request, full_path, response, wire,
          errorLogged, canon, readRes, nfRead, bodyFrom>>

NoRead == [ok |-> FALSE, data |-> <<>>, at |-> <<>>]

Init ==
    /\ fs = fs0
    /\ fsChanges = 0
    /\ pc = [c \in Conns |-> "Idle"]
    /\ sent = [c \in Conns |-> <<>>]
    /\ peer = [c \in Conns |-> "open"]
    /\ request = [c \in Conns |-> NoRequest]
    /\ full_path = [c \in Conns |-> <<>>]
    /\ response = [c \in Conns |-> NoResponse]
    /\ wire = [c \in Conns |-> NoWire]
    /\ errorLogged = [c \in Conns |-> FALSE]
    /\ canon = [c \in Conns |-> "none"]
    /\ readRes = [c \in Conns |-> "none"]
    /\ nfRead = [c \in Conns |-> NoRead]
    /\ bodyFrom = [c \in Conns |-> <<>>]

handlerVars == <<request, full_path, response, wire, errorLogged, canon,
                 readRes, nfRead, bodyFrom>>

(***************************************************************************)
(* Peers and other processes.                                              *)
(***************************************************************************)
PeerConnect(c) ==
    /\ pc[c] = "Idle"
    /\ \A d \in Conns : d < c => pc[d] # "Idle"
    /\ pc' = [pc EXCEPT ![c] = "Pending"]
    /\ UNCHANGED <<fs, fsChanges, sent, peer, handlerVars>>

PeerSend(c, s) ==
    /\ pc[c] = "Parsing"
    /\ peer[c] = "open"
    /\ sent[c] = <<>>
    /\ sent' = [sent EXCEPT ![c] = s]
    /\ UNCHANGED <<fs, fsChanges, pc, peer, handlerVars>>

PeerClose(c) ==
    /\ pc[c] = "Parsing"
    /\ peer[c] = "open"
    /\ peer' = [peer EXCEPT ![c] = "closed"]
    /\ UNCHANGED <<fs, fsChanges, pc, sent, handlerVars>>

PeerReset(c) ==
    /\ pc[c] \in {"Parsing", "Writing"}
    /\ peer[c] = "open"
    /\ peer' = [peer EXCEPT ![c] = "reset"]
    /\ UNCHANGED <<fs, fsChanges, pc, sent, handlerVars>>

PeerTimeout(c) ==
    /\ pc[c] = "Parsing"
    /\ peer[c] = "open"
    /\ peer' = [peer EXCEPT ![c] = "timeout"]
    /\ UNCHANGED <<fs, fsChanges, pc, sent, handlerVars>>

FsChange(p, n) ==
    /\ fsChanges < MaxFsChanges
    /\ \E c \in Watched : pc[c] # "Closed"
    /\ p \in Mutable
    /\ n \in Alternatives(p)
    /\ n # fs[p]
    /\ fs' = [fs EXCEPT ![p] = n]
    /\ fsChanges' = fsChanges + 1
    /\ UNCHANGED <<pc, sent, peer, handlerVars>>

(***************************************************************************)
(* The listener loop (main.rs 81-87).                                      *)
(***************************************************************************)
\* AcceptReady with the connection handled in the loop itself, no thread
AcceptReadyInline == \A c \in Conns : pc[c] \in {"Idle", "Pending", "Closed"}

\* the loop is back in accept() as soon as the handler thread is spawned,
\* whatever the earlier connections are doing
AcceptReady == TRUE

Accept(c) ==
    /\ AcceptReady
    /\ pc[c] = "Pending"
    /\ pc' = [pc EXCEPT ![c] = "Accepted"]
    /\ UNCHANGED <<fs, fsChanges, sent, peer, handlerVars>>

\* accept() fails for a connection that went away: the loop continues
AcceptError(c) ==
    /\ AcceptReady
    /\ pc[c] = "Pending"
    /\ pc' = [pc EXCEPT ![c] = "Closed"]
    /\ peer' = [peer EXCEPT ![c] = "reset"]
    /\ UNCHANGED <<fs, fsChanges, sent, handlerVars>>

\* std::thread::spawn: the handler starts with parse_request
Spawn(c) ==
    /\ pc[c] = "Accepted"
    /\ pc' = [pc EXCEPT ![c] = "Parsing"]
    /\ UNCHANGED <<fs, fsChanges, sent, peer, handlerVars>>

(***************************************************************************)
(* The handler thread of one connection (main.rs 87-123).                  *)
(***************************************************************************)
\* AfterWrite with the handler reading the next request of the connection
AfterWriteKeepAlive == "Parsing"

\* the closure returns after response.write; the stream is dropped
AfterWrite == "Closed"

Parse(c) ==
    LET r == parse_request(sent[c], peer[c])
    IN  /\ pc[c] = "Parsing"
        /\ r.kind # "Blocked"
        /\ IF r.kind = "Ok"
           THEN /\ request' = [request EXCEPT ![c] = r.req]
                /\ pc' = [pc EXCEPT ![c] = "Resolving"]
                /\ UNCHANGED errorLogged
           ELSE /\ pc' = [pc EXCEPT ![c] = "Closed"]
                /\ errorLogged' = [errorLogged EXCEPT ![c] = ParseErrorLogged(r.kind)]
                /\ UNCHANGED request
        /\ UNCHANGED <<fs, fsChanges, sent, peer, full_path, response, wire,
                       canon, readRes, nfRead, bodyFrom>>

DoResolve(c) ==
    LET r == Resolve(fs, request[c])
    IN  /\ pc[c] = "Resolving"
        /\ pc' = [pc EXCEPT ![c] = r.next]
        /\ response' = [response EXCEPT ![c] = r.resp]
        /\ full_path' = [full_path EXCEPT ![c] = r.full_path]
        /\ canon' = [canon EXCEPT ![c] = r.canon]
        /\ errorLogged' = [errorLogged EXCEPT ![c] = r.fault]
        /\ UNCHANGED <<fs, fsChanges, sent, peer, request, wire, readRes,
                       nfRead, bodyFrom>>

DoRead(c) ==
    LET r == read(fs, full_path[c])
        b == Build(r)
    IN  /\ pc[c] = "Building"
        /\ pc' = [pc EXCEPT ![c] = b.next]
        /\ response' = [response EXCEPT ![c] = b.resp]
        /\ readRes' = [readRes EXCEPT ![c] = IF r.ok THEN "ok" ELSE "err"]
        /\ bodyFrom' = [bodyFrom EXCEPT ![c] = r.at]
        /\ UNCHANGED <<fs, fsChanges, sent, peer, request, full_path, wire,
                       errorLogged, canon, nfRead>>

DoNotFound(c) ==
    LET fallback_path == join(root, FALLBACK_NAME)
        r == read_to_string(fs, fallback_path)
    IN  /\ pc[c] = "Fallback"
        /\ pc' = [pc EXCEPT ![c] = "Writing"]
        /\ response' = [response EXCEPT ![c] = not_found(r)]
        /\ nfRead' = [nfRead EXCEPT ![c] = read(fs, fallback_path)]
        /\ bodyFrom' = [bodyFrom EXCEPT ![c] = r.at]
        /\ UNCHANGED <<fs, fsChanges, sent, peer, request, full_path, wire,
                       errorLogged, canon, readRes>>

DoWrite(c) ==
    /\ pc[c] = "Writing"
    /\ pc' = [pc EXCEPT ![c] = AfterWrite]
    /\ wire' = [wire EXCEPT ![c] = IF peer[c] = "reset" THEN WriteFailed
                                    ELSE write(response[c])]
    /\ UNCHANGED <<fs, fsChanges, sent, peer, request, full_path, response,
                   errorLogged, canon, readRes, nfRead, bodyFrom>>

HandlerStep(c) ==
    \/ Spawn(c)
    \/ Parse(c)
    \/ DoResolve(c)
    \/ DoRead(c)
    \/ DoNotFound(c)
    \/ DoWrite(c)

(***************************************************************************)
(* Spec: one connection, every input, a filesystem that changes under the  *)
(* handler.  LiveSpec: MaxConn concurrent connections on a quiet           *)
(* filesystem, whose peers send a line, send nothing or reset; the         *)
(* listener and every handler thread keep being scheduled.                 *)
(***************************************************************************)
Next ==
    \/ \E c \in Watched : PeerConnect(c)
    \/ \E c \in Watched : \E s \in Streams : PeerSend(c, s)
    \/ \E c \in Watched : PeerClose(c)
    \/ \E c \in Watched : PeerReset(c)
    \/ \E c \in Watched : PeerTimeout(c)
    \/ \E p \in Mutable : \E n \in Alternatives(p) : FsChange(p, n)
    \/ \E c \in Watched : Accept(c)
    \/ \E c \in Watched : AcceptError(c)
    \/ \E c \in Watched : HandlerStep(c)

Spec == Init /\ [][Next]_vars

LiveNext ==
    \/ \E c \in Conns : PeerConnect(c)
    \/ \E c \in Conns : \E s \in LiveStreams : PeerSend(c, s)
    \/ \E c \in Conns : PeerReset(c)
    \/ \E c \in Conns : Accept(c)
    \/ \E c \in Conns : AcceptError(c)
    \/ \E c \in Conns : HandlerStep(c)

\* The operating system keeps scheduling the listener and every handler
\* thread.  A handler thread can run unless it is blocked in the read of
\* parse_request, which returns once a line feed, the end of the stream or
\* an error has arrived; a step of the thread takes its connection to
\* another stage.
Stages == {"Idle", "Pending", "Accepted", "Parsing", "Resolving", "Building",
           "Fallback", "Writing", "Closed"}

LineReady(c) == peer[c] # "open" \/ FirstLF(sent[c], 1) # 0

HandlerReady(c) ==
    \/ pc[c] \in {"Accepted", "Resolving", "Building", "Fallback", "Writing"}
    \/ pc[c] = "Parsing" /\ LineReady(c)

Advance(c) ==
    /\ HandlerReady(c)
    /\ \E st \in Stages \ {pc[c]} : pc' = [pc EXCEPT ![c] = st]

LiveSpec ==
    /\ Init
    /\ [][LiveNext]_vars
    /\ \A c \in Conns : WF_vars(Accept(c))
    /\ \A c \in Conns : WF_pc(Advance(c))

(***************************************************************************)
(* Vocabulary of the properties.                                           *)
(***************************************************************************)
\* the handler has built its response
Built(c) == pc[c] \in {"Writing", "Closed"} /\ response[c] # NoResponse

\* the handler has finished and its peer was there to the end
Finished(c) == pc[c] = "Closed" /\ peer[c] \in {"open", "closed"}

\* the request line the parser saw, cut into tokens
LineOf(c) == next_line(sent[c], peer[c] = "closed")
TokensOf(c) == split_whitespace(LineOf(c).line, <<>>)
MethodOf(c) == IF Len(TokensOf(c)) >= 1 THEN TokensOf(c)[1] ELSE <<>>
PathOf(c) == IF Len(TokensOf(c)) >= 2 THEN TokensOf(c)[2] ELSE ROOT_PATH
GotLine(c) == pc[c] \notin {"Idle", "Pending", "Accepted", "Parsing"}
                 /\ peer[c] \in {"open", "closed"}
                 /\ LineOf(c).kind = "Some"

\* the 404 response the server gave, from what root/404.html held when
\* not_found ran
ServedFallback(c) ==
    not_found(IF nfRead[c].ok /\ ValidUtf8(nfRead[c].data) THEN nfRead[c] ELSE NoRead)

\* "." and ".." taken out of a path without looking at the filesystem
RECURSIVE LexNorm(_, _)
LexNorm(comps, acc) ==
    IF comps = <<>> THEN acc
    ELSE IF Head(comps) = <<46>> THEN LexNorm(Tail(comps), acc)
    ELSE IF Head(comps) = <<46,46>> THEN LexNorm(Tail(comps), Parent(acc))
    ELSE LexNorm(Tail(comps), Append(acc, Head(comps)))

\* the path a GET asks for, and whether it lies outside root: where
\* canonicalize gave a path, that path; where it failed, the path as written
TargetOf(c) == join(root, requested(request[c]).val)
TargetOutside(c) ==
    /\ canon[c] # "none"
    /\ IF canon[c] = "Ok" THEN ~starts_with(full_path[c], root)
       ELSE ~starts_with(LexNorm(TargetOf(c), <<>>), root)

\* a GET that went to the not-found branch of prepare_response
InNotFoundBranch(c) ==
    \/ canon[c] = "NotFound"
    \/ canon[c] = "Ok" /\ ~starts_with(full_path[c], root)
    \/ readRes[c] = "err"

\* a file name percent-encoded once: '%' and ' ' are escaped
RECURSIVE Encode(_)
Encode(s) ==
    IF s = <<>> THEN <<>>
    ELSE IF s[1] = 37 THEN <<37,50,53>> \o Encode(Tail(s))
    ELSE IF s[1] = 32 THEN <<37,50,48>> \o Encode(Tail(s))
    ELSE <<s[1]>> \o Encode(Tail(s))

\* "GET /<name>\n"
GetLine(name) == GET \o <<32, SLASH>> \o Encode(name) \o <<10>>

\* file names below root, without the suffix: "a" and "a%41"
Names == {<<97>>, <<97,37,52,49>>}

(***************************************************************************)
(* C1: the body of every response written is a fixed literal or the bytes  *)
(* of a file whose canonical path, when it was read, lay inside root; this *)
(* holds for the 200 body and for the 404 fallback body.                   *)
(***************************************************************************)
C1_BodyFromInsideRoot ==
    \A c \in Conns :
        (wire[c].sent = "ok" /\ bodyFrom[c] # <<>>) => starts_with(bodyFrom[c], root)

(***************************************************************************)
(* C2: a GET whose target lies outside root gets the response of a         *)
(* nonexistent file, status 404 with the fallback body, whether the target *)
(* exists, does not exist or cannot be accessed.                           *)
(***************************************************************************)
C2_OutsideLooksMissing ==
    \A c \in Conns :
        (Finished(c) /\ request[c].method = GET /\ TargetOutside(c))
            => wire[c] = write(ServedFallback(c))

(***************************************************************************)
(* C3: on an unchanged tree, GET /<name> with the name percent-encoded     *)
(* once returns 200 with the bytes of root/<name><suffix> and their        *)
(* length as Content-Length, and GET / returns root/index.html.            *)
(***************************************************************************)
C3_RoundTrip ==
    \A c \in Conns :
        (Finished(c) /\ fsChanges = 0) =>
            /\ \A name \in Names :
                  LET f == Node(fs, Append(root, name \o suffix))
                  IN  (sent[c] = GetLine(name) /\ f.k = "file" /\ f.perm)
                          => wire[c] = write(Response(200, "Ok", f.data))
            /\ (sent[c] = S_index /\ Node(fs, P_index).k = "file")
                  => wire[c] = write(Response(200, "Ok", Node(fs, P_index).data))

(***************************************************************************)
(* C4: in the not-found branch the status is 404 and the body is the bytes *)
(* of root/404.html when that file can be read, whatever they are, and the *)
(* literal "404 Not Found" when it cannot.                                 *)
(***************************************************************************)
C4_FallbackBody ==
    \A c \in Conns :
        (Built(c) /\ InNotFoundBranch(c)) =>
            /\ response[c].status_code = 404
            /\ response[c].body = IF nfRead[c].ok THEN nfRead[c].data ELSE BODY_404

(***************************************************************************)
(* C5: a request line whose method is not exactly GET is answered 405      *)
(* with the fixed body, whatever its path, a path that fails               *)
(* percent-decoding included.                                              *)
(***************************************************************************)
C5_NotGetIs405 ==
    \A c \in Conns :
        (Finished(c) /\ GotLine(c) /\ MethodOf(c) # GET) => wire[c] = write(R405)

(***************************************************************************)
(* C6: a GET whose path fails percent-decoding is answered 400 "Bad        *)
(* Request" and is not logged as a server fault.                           *)
(***************************************************************************)
C6_BadPathIs400 ==
    \A c \in Conns :
        (Finished(c) /\ GotLine(c) /\ MethodOf(c) = GET /\ ~decode(PathOf(c)).ok)
            => (wire[c] = write(R400) /\ ~errorLogged[c])

(***************************************************************************)
(* C7: when the peer closes the stream before a line terminator arrived,   *)
(* after zero bytes or after a partial line, the parser fails, no response *)
(* is written and the filesystem is not touched.                           *)
(***************************************************************************)
C7_NoTerminatorNoResponse ==
    \A c \in Conns :
        (pc[c] = "Closed" /\ peer[c] = "closed" /\ FirstLF(sent[c], 1) = 0)
            => (request[c] = NoRequest /\ wire[c].sent = "none" /\ canon[c] = "none")

(***************************************************************************)
(* C8: nothing that happens on one connection stops the listener or the    *)
(* other handlers: a step changes the state of one connection only, a      *)
(* pending connection is always taken off the backlog, and a connection    *)
(* whose peer has sent a request line that parses is answered (unless its  *)
(* own peer goes away), whatever the other connections do.                 *)
(***************************************************************************)
ConnState(c) ==
    <<pc[c], sent[c], peer[c], request[c], full_path[c], response[c], wire[c],
      errorLogged[c], canon[c], readRes[c], nfRead[c], bodyFrom[c]>>

LineWaiting(c) == pc[c] = "Parsing" /\ parse_request(sent[c], peer[c]).kind = "Ok"

Answered(c) == wire[c].sent # "none"

PeerGone(c) == peer[c] \in {"reset", "timeout"}

C8_Isolation ==
    /\ [][\A c, d \in Conns :
            (c # d /\ ConnState(c)' # ConnState(c)) => ConnState(d)' = ConnState(d)]_vars
    /\ \A c \in Conns : (pc[c] = "Pending") ~> (pc[c] # "Pending")
    /\ \A c \in Conns : LineWaiting(c) ~> (Answered(c) \/ PeerGone(c))

\* a later connection has its response while an earlier one, whose peer
\* sends nothing, still sits in the parser
C8_Witness ==
    \E c, d \in Conns :
        /\ c < d
        /\ pc[c] = "Parsing" /\ sent[c] = <<>> /\ peer[c] = "open"
        /\ pc[d] = "Closed" /\ wire[d].sent = "ok"

(***************************************************************************)
(* C9: a GET whose canonical target lies inside root but cannot be read as *)
(* a file (a directory, no read permission, removed after it was           *)
(* resolved) gets the 404 response of a nonexistent file, never 500.       *)
(***************************************************************************)
C9_UnreadableIs404 ==
    \A c \in Conns :
        (Built(c) /\ canon[c] = "Ok" /\ starts_with(full_path[c], root)
                  /\ readRes[c] = "err")
            => /\ response[c] = ServedFallback(c)
               /\ response[c].status_code = 404
               /\ ~errorLogged[c]
               /\ (Finished(c) => wire[c] = write(ServedFallback(c)))

\* the file was there when the path was resolved and gone when it was read
C9_Witness ==
    \E c \in Conns :
        /\ pc[c] = "Closed"
        /\ canon[c] = "Ok" /\ full_path[c] = P_a /\ readRes[c] = "err"
        /\ fsChanges = 1 /\ fs[P_a] = Absent
        /\ wire[c].sent = "ok" /\ wire[c].status_code = 404

(***************************************************************************)
(* C10: a connection moves only forward through Accepted, Parsing,         *)
(* Resolving, Building, Writing, Closed; stages may be skipped, none is    *)
(* entered again; the request is parsed once, and one response at most is  *)
(* written, by the step that closes the connection.                        *)
(***************************************************************************)
Rank(stage) ==
    CASE stage = "Idle" -> 0
      [] stage = "Pending" -> 1
      [] stage = "Accepted" -> 2
      [] stage = "Parsing" -> 3
      [] stage = "Resolving" -> 4
      [] stage = "Building" -> 5
      [] stage = "Fallback" -> 6
      [] stage = "Writing" -> 7
      [] stage = "Closed" -> 8

C10_ForwardOnly ==
    [][\A c \in Conns :
          /\ pc'[c] # pc[c] => Rank(pc'[c]) > Rank(pc[c])
          /\ request'[c] # request[c] =>
                (pc[c] = "Parsing" /\ pc'[c] = "Resolving" /\ request[c] = NoRequest)
          /\ wire'[c] # wire[c] =>
                (pc[c] = "Writing" /\ pc'[c] = "Closed" /\ wire[c] = NoWire)
          /\ pc[c] = "Closed" => ConnState(c)' = ConnState(c)]_vars

\* a connection that went through every stage and was answered 200
C10_Witness ==
    \E c \in Conns :
        /\ pc[c] = "Closed"
        /\ request[c] # NoRequest
        /\ readRes[c] = "ok"
        /\ wire[c].sent = "ok" /\ wire[c].status_code = 200

====
